---- MODULE Spec2Model ----
(***************************************************************************)
(* Tool lifecycle orchestrator of the MACHETE platform: ToolService        *)
(* (install, build, start, stop, delete) over GitService and DockerService.*)
(* Every lifecycle operation runs to completion as one step; what it did   *)
(* in between (steps entered, status writes, adapter calls) is kept in the *)
(* result's event list.  The specifications of requests in flight split    *)
(* an operation at its database awaits: read, adapter call, write.         *)
(***************************************************************************)
EXTENDS Integers, Sequences, FiniteSets, TLC

VARIABLES
    tools,          \* persisted Tool rows: id -> record
    nextId,         \* next surrogate id the database hands out
    dirs,           \* directories existing on disk: temporary ones and the caller's
    repoDirs,       \* temporary directories that hold a 'repo' subdirectory
    is_available,   \* DockerService.is_available, fixed when the service is built
    instances,      \* names of the tools whose container the engine is running
    inflight,       \* per request in flight: the operation and how far it got
    result          \* what the last operation returned, with its event list

vars == <<tools, nextId, dirs, repoDirs, is_available, instances, inflight, result>>

\* ----------------------------------------------------------------- bounds
MaxIds == 2
MaxDirs == 2

\* ------------------------------------------------------------ Python values
Null == "None"

Truthy(x) == x \notin {Null, ""}

\* a or b or c
Or3(a, b, c) == IF Truthy(a) THEN a ELSE IF Truthy(b) THEN b ELSE c

RECURSIVE SumScores(_, _)
SumScores(f, S) ==
    IF S = {} THEN 0
    ELSE LET x == CHOOSE y \in S : TRUE IN f[x] + SumScores(f, S \ {x})

\* ------------------------------------------------------------- ToolStatus
PENDING == "pending"
BUILDING == "building"
RUNNING == "running"
STOPPED == "stopped"
FAILED == "failed"
UNKNOWN == "unknown"

ToolStatus == {PENDING, BUILDING, RUNNING, STOPPED, FAILED, UNKNOWN}

\* ToolType has the members WEB, API, CLI, DAEMON, UTILITY and no COMPOSE
ToolType == {"web", "api", "cli", "daemon", "utility"}

\* --------------------------------------------------------- inputs: git URLs
\* A URL is its prefix and its last '/'-segment, the segment cut at every
\* occurrence of ".git".
Urls == {
    [prefix |-> "https://", last |-> <<"scanner", ".git">>],
    [prefix |-> "https://", last |-> <<"fuzzer">>],
    [prefix |-> "ftp://", last |-> <<"scanner", ".git">>] }

RequestedNames == {Null, "scanner"}

\* ------------------------------------------------- inputs: repository trees
NoPackageJson == [name |-> Null, description |-> Null]
NoMacheteYml == [name |-> Null, description |-> Null, port |-> Null]
GoodDockerfile == [has_from |-> TRUE, has_expose |-> TRUE, has_cmd |-> TRUE]

\* only a valid Dockerfile (FROM alpine, EXPOSE 8080)
RepoDockerOnly == [
    files |-> {"Dockerfile"},
    package_json |-> NoPackageJson, machete_yml |-> NoMacheteYml,
    readme_line |-> Null, py_port |-> Null,
    dockerfile |-> [has_from |-> TRUE, has_expose |-> TRUE, has_cmd |-> FALSE],
    compose_services |-> <<>> ]

\* no Dockerfile at all
RepoNoDockerfile == [
    files |-> {"README.md", "requirements.txt"},
    package_json |-> NoPackageJson, machete_yml |-> NoMacheteYml,
    readme_line |-> "Scans hosts. Fast", py_port |-> "5000",
    dockerfile |-> [has_from |-> FALSE, has_expose |-> FALSE, has_cmd |-> FALSE],
    compose_services |-> <<>> ]

\* Dockerfile and a README with a describing line
RepoReadme == [
    files |-> {"Dockerfile", "README.md"},
    package_json |-> NoPackageJson, machete_yml |-> NoMacheteYml,
    readme_line |-> "Scans hosts. Fast", py_port |-> Null,
    dockerfile |-> GoodDockerfile,
    compose_services |-> <<>> ]

\* Dockerfile without FROM, machete.yml and package.json naming the tool
RepoManifests == [
    files |-> {"Dockerfile", "machete.yml", "package.json", "requirements.txt"},
    package_json |-> [name |-> "fuzzer", description |-> "Fuzzes inputs"],
    machete_yml |-> [name |-> "scanner", description |-> "Scans hosts. Fast",
                     port |-> "8080"],
    readme_line |-> Null, py_port |-> "5000",
    dockerfile |-> [has_from |-> FALSE, has_expose |-> TRUE, has_cmd |-> TRUE],
    compose_services |-> <<>> ]

\* Dockerfile, README and a two-service docker-compose.yml
RepoCompose == [
    files |-> {"Dockerfile", "README.md", "docker-compose.yml"},
    package_json |-> NoPackageJson, machete_yml |-> NoMacheteYml,
    readme_line |-> "Scans hosts. Fast", py_port |-> Null,
    dockerfile |-> GoodDockerfile,
    compose_services |-> <<"web", "db">> ]

\* the only Dockerfile lies at docker/Dockerfile, next to a README
RepoNestedDockerfile == [
    files |-> {"docker/Dockerfile", "README.md"},
    package_json |-> NoPackageJson, machete_yml |-> NoMacheteYml,
    readme_line |-> "Scans hosts. Fast", py_port |-> Null,
    dockerfile |-> GoodDockerfile,
    compose_services |-> <<>> ]

Repos == {RepoDockerOnly, RepoNoDockerfile, RepoReadme, RepoManifests, RepoCompose,
          RepoNestedDockerfile}

\* --------------------------------------------------- inputs: what the remote does
\* accessible: 'git ls-remote' exits 0; clone: how 'git clone' ends; repo: the tree
Remotes ==
    { [accessible |-> FALSE, clone |-> "ok", repo |-> RepoDockerOnly],
      [accessible |-> TRUE, clone |-> "nonzero_exit", repo |-> RepoDockerOnly],
      [accessible |-> TRUE, clone |-> "timeout", repo |-> RepoDockerOnly] }
    \cup { [accessible |-> TRUE, clone |-> "ok", repo |-> r] : r \in Repos }

\* ============================================================== GitService

\* first element of the path list that exists in the tree, Null when none does
RECURSIVE FirstExisting(_, _)
FirstExisting(paths, files) ==
    IF paths = <<>> THEN Null
    ELSE IF Head(paths) \in files THEN Head(paths)
    ELSE FirstExisting(Tail(paths), files)

\* str.replace(".git", "") on the segment: every ".git" piece is dropped
RECURSIVE ReplaceDotGit(_)
ReplaceDotGit(pieces) ==
    IF pieces = <<>> THEN ""
    ELSE IF Head(pieces) = ".git" THEN ReplaceDotGit(Tail(pieces))
    ELSE Head(pieces) \o ReplaceDotGit(Tail(pieces))

\* a check that lets every URL pass
_is_valid_git_url_any(url) == TRUE

\* any(url.startswith(prefix) for prefix in valid_prefixes)
_is_valid_git_url(url) ==
    url.prefix \in {"https://", "http://", "git@", "file://"}

essential_files ==
    [f \in {"Dockerfile", "machete.yml", "docker-compose.yml", "README.md",
            "package.json", "requirements.txt", "pyproject.toml"} |->
        CASE f = "Dockerfile" -> 30
          [] f = "machete.yml" -> 20
          [] f = "docker-compose.yml" -> 15
          [] f = "README.md" -> 10
          [] OTHER -> 5]

\* a validation that also requires the README
required_files_with_readme == {"Dockerfile", "README.md"}

\* the entries of essential_files with "required": True
required_files == {"Dockerfile"}

_validate_tool_structure(repo) ==
    LET found == {f \in DOMAIN essential_files : f \in repo.files}
        critical == {f \in required_files : f \notin repo.files}
        optional == {f \in DOMAIN essential_files \ required_files : f \notin repo.files}
    IN [valid |-> critical = {},
        warnings |-> optional,
        critical_errors |-> critical,
        found_files |-> found,
        structure_score |-> SumScores(essential_files, found)]

NoStructure ==
    [valid |-> FALSE, warnings |-> {}, critical_errors |-> {}, found_files |-> {},
     structure_score |-> 0]

dockerfile_paths == <<"Dockerfile", "docker/Dockerfile", "build/Dockerfile">>
compose_files == <<"docker-compose.yml", "docker-compose.yaml", "compose.yml", "compose.yaml">>
readme_files == <<"README.md", "README.txt", "README.rst", "readme.md">>

\* a lookup that raises the flag and forgets the file
compose_lookup_flag_only(files) ==
    [has_compose |-> FirstExisting(compose_files, files) # Null, compose_file |-> Null]

\* for compose_file in compose_files: ... break / else: both fields from the
\* one lookup
compose_lookup(files) ==
    LET cf == FirstExisting(compose_files, files)
    IN  [has_compose |-> cf # Null, compose_file |-> cf]

extract_tool_metadata(repo) ==
    LET df == FirstExisting(dockerfile_paths, repo.files)
        cl == compose_lookup(repo.files)
        has_pkg == "package.json" \in repo.files
        \* package.json is read first and writes its fields unconditionally
        name1 == IF has_pkg THEN repo.package_json.name ELSE Null
        desc1 == IF has_pkg THEN repo.package_json.description ELSE Null
        \* the source scan runs when requirements.txt or pyproject.toml exists
        port1 == IF {"requirements.txt", "pyproject.toml"} \cap repo.files # {}
                 THEN repo.py_port ELSE Null
        \* machete.yml fills what is still unset
        has_my == "machete.yml" \in repo.files
        name2 == IF has_my /\ ~Truthy(name1) THEN repo.machete_yml.name ELSE name1
        desc2 == IF has_my /\ ~Truthy(desc1) THEN repo.machete_yml.description ELSE desc1
        port2 == IF has_my /\ ~Truthy(port1) THEN repo.machete_yml.port ELSE port1
        \* the first README that exists fills a description still unset
        rd == FirstExisting(readme_files, repo.files)
        desc3 == IF rd # Null /\ ~Truthy(desc2) /\ repo.readme_line # Null
                 THEN repo.readme_line ELSE desc2
    IN [name |-> name2,
        description |-> desc3,
        dockerfile_path |-> IF df = Null THEN "Dockerfile" ELSE df,
        has_dockerfile |-> df # Null,
        port |-> port2,
        health_check |-> "/health",
        has_compose |-> cl.has_compose,
        compose_file |-> cl.compose_file]

NoMetadata ==
    [name |-> Null, description |-> Null, dockerfile_path |-> "Dockerfile",
     has_dockerfile |-> FALSE, port |-> Null, health_check |-> "/health",
     has_compose |-> FALSE, compose_file |-> Null]

_analyze_dockerfile(d) ==
    LET errors == IF d.has_from THEN {} ELSE {"No FROM instruction found in Dockerfile"}
        warnings ==
            (IF d.has_cmd THEN {} ELSE {"No ENTRYPOINT or CMD instruction found"})
            \cup (IF d.has_expose THEN {}
                  ELSE {"No EXPOSE instruction found - tool may not be accessible"})
    IN [valid |-> errors = {}, errors |-> errors, warnings |-> warnings]

_analyze_compose_file(services) ==
    LET errors == IF services = <<>>
                  THEN {"No services defined in docker-compose.yml"} ELSE {}
    IN [valid |-> errors = {}, errors |-> errors, warnings |-> {},
        services |-> services]

_validate_docker_configuration(repo) ==
    LET da == _analyze_dockerfile(repo.dockerfile)
        ca == _analyze_compose_file(repo.compose_services)
        derr == IF "Dockerfile" \in repo.files THEN da.errors ELSE {}
        dwarn == IF "Dockerfile" \in repo.files THEN da.warnings ELSE {}
        cerr == IF "docker-compose.yml" \in repo.files THEN ca.errors ELSE {}
    IN [valid |-> derr \cup cerr = {},
        errors |-> derr \cup cerr,
        warnings |-> dwarn]

NoDockerConfig == [valid |-> TRUE, errors |-> {}, warnings |-> {}]

\* the codes that have an entry in the guides dictionary
guides == {"INVALID_GIT_URL", "REPOSITORY_INACCESSIBLE", "CLONE_FAILED",
           "INVALID_TOOL_STRUCTURE"}

\* a result without the "troubleshooting" key
NoGuide == [guide |-> Null, common_causes |-> FALSE, solutions |-> FALSE]

\* guides.get(error_code, default): the default entry has a description and
\* solutions and no common_causes
_generate_troubleshooting_guide(error_code) ==
    IF error_code \in guides
    THEN [guide |-> error_code, common_causes |-> TRUE, solutions |-> TRUE]
    ELSE [guide |-> "default", common_causes |-> FALSE, solutions |-> TRUE]

\* Outcomes of 'git clone --depth 1' under subprocess.run(timeout=300)
CloneOutcomes == {"ok", "nonzero_exit", "timeout"}

\* mkdtemp, then the clone into <temp_dir>/repo.  Returns the error code raised
\* ("" when the clone succeeded) and what is left on disk when it returns.
\* The nonzero-exit fault is raised inside the try block and passes through
\* 'except Exception', which removes temp_dir; the timeout fault is raised from
\* the TimeoutExpired handler, where no removal happens.
_clone_repository_safe(clone) ==
    CASE clone = "ok" ->
            [error_code |-> "", temp_dir_exists |-> TRUE, repo_exists |-> TRUE]
      [] clone = "nonzero_exit" ->
            [error_code |-> "CLONE_FAILED", temp_dir_exists |-> FALSE, repo_exists |-> FALSE]
      [] clone = "timeout" ->
            [error_code |-> "CLONE_TIMEOUT", temp_dir_exists |-> TRUE, repo_exists |-> TRUE]

\* GitService.validate_and_clone_repository: the pipeline up to final validation
validate_and_clone_repository(git_url, accessible, clone, repo) ==
    LET fail(code, steps, left, sv) ==
            [success |-> FALSE, error_code |-> code, steps |-> steps,
             made_dir |-> left.made, temp_dir_exists |-> left.temp,
             repo_exists |-> left.repo,
             troubleshooting |-> _generate_troubleshooting_guide(code),
             structure |-> sv, metadata |-> NoMetadata, docker_config |-> NoDockerConfig]
        nodir == [made |-> FALSE, temp |-> FALSE, repo |-> FALSE]
        c == _clone_repository_safe(clone)
        disk == [made |-> TRUE, temp |-> c.temp_dir_exists, repo |-> c.repo_exists]
        st == _validate_tool_structure(repo)
        md == extract_tool_metadata(repo)
        dc == _validate_docker_configuration(repo)
        s1 == <<"url_validation">>
        s2 == s1 \o <<"repository_accessibility">>
        s3 == s2 \o <<"cloning">>
        s4 == s3 \o <<"structure_validation">>
        s7 == s4 \o <<"metadata_extraction", "docker_validation", "final_validation">>
    IN  IF ~_is_valid_git_url(git_url) THEN fail("INVALID_GIT_URL", s1, nodir, NoStructure)
        ELSE IF ~accessible THEN fail("REPOSITORY_INACCESSIBLE", s2, nodir, NoStructure)
        ELSE IF c.error_code # "" THEN fail(c.error_code, s3, disk, NoStructure)
        ELSE IF ~st.valid /\ st.critical_errors # {}
             THEN fail("INVALID_TOOL_STRUCTURE", s4, disk, st)
        ELSE [success |-> TRUE, error_code |-> "", steps |-> s7,
              made_dir |-> TRUE, temp_dir_exists |-> TRUE, repo_exists |-> TRUE,
              troubleshooting |-> NoGuide,
              structure |-> st, metadata |-> md, docker_config |-> dc]

\* Outcomes of Repo.clone_from in clone_repository
RepoCloneOutcomes == {"cloned", "GitCommandError"}

\* a failing clone whose handlers leave the directory behind
clone_repository_keeps_dir(clone) ==
    IF clone = "cloned"
    THEN [success |-> TRUE, error |-> Null, path_exists |-> TRUE]
    ELSE [success |-> FALSE, error |-> clone, path_exists |-> TRUE]

\* GitService.clone_repository: mkdtemp, then the clone into it; both handlers
\* remove the directory before they return the failure
clone_repository(clone) ==
    IF clone = "cloned"
    THEN [success |-> TRUE, error |-> Null, path_exists |-> TRUE]
    ELSE [success |-> FALSE, error |-> clone, path_exists |-> FALSE]

\* cleanup_repository(path): rmtree of exactly that path
cleanup_repository(disk, path) == disk \ {path}

\* a cleanup that reports a path it did not find as a failure
cleanup_repository_call_strict(disk, repo_path) ==
    IF repo_path.set /\ repo_path.path \in disk
    THEN [disk |-> cleanup_repository(disk, repo_path.path), rmtree |-> TRUE,
          returns |-> TRUE]
    ELSE [disk |-> disk, rmtree |-> FALSE, returns |-> FALSE]

\* the whole method: if repo_path and Path(repo_path).exists(): rmtree, return
\* True; otherwise return True.  repo_path.set is the truth value of the string.
cleanup_repository_call(disk, repo_path) ==
    IF repo_path.set /\ repo_path.path \in disk
    THEN [disk |-> cleanup_repository(disk, repo_path.path), rmtree |-> TRUE,
          returns |-> TRUE]
    ELSE [disk |-> disk, rmtree |-> FALSE, returns |-> TRUE]

\* ============================================================ DockerService

\* one entry of the engine's build output: a 'stream' line or another key
BuildOutputs == {
    << [key |-> "stream", text |-> "Step 1/2 : FROM alpine\n"],
       [key |-> "aux", text |-> "sha256:1a2b"],
       [key |-> "stream", text |-> "Step 2/2 : RUN make\n"] >> }

\* str.strip() on the lines the engine emits
strip(text) ==
    CASE text = "Step 1/2 : FROM alpine\n" -> "Step 1/2 : FROM alpine"
      [] text = "Step 2/2 : RUN make\n" -> "Step 2/2 : RUN make"
      [] OTHER -> text

RECURSIVE StreamLines(_, _)
StreamLines(output, stripped) ==
    IF output = <<>> THEN <<>>
    ELSE IF Head(output).key = "stream"
         THEN << IF stripped THEN strip(Head(output).text) ELSE Head(output).text >>
              \o StreamLines(Tail(output), stripped)
    ELSE StreamLines(Tail(output), stripped)

\* what client.images.build does: returns, raises BuildError, raises another error
BuildOutcomes == {"built", "BuildError", "APIError"}

build_image(available, outcome, output) ==
    IF ~available
    THEN [success |-> FALSE, error |-> "Docker service is not available",
          logs |-> <<"Docker client could not connect to Docker daemon">>]
    ELSE CASE outcome = "built" ->
                [success |-> TRUE, error |-> Null, logs |-> StreamLines(output, TRUE)]
           [] outcome = "BuildError" ->
                [success |-> FALSE, error |-> "BuildError", logs |-> StreamLines(output, FALSE)]
           [] OTHER ->
                [success |-> FALSE, error |-> outcome, logs |-> <<>>]

ContainerIds == {"c1", "c2"}

\* what client.containers.run does: returns a container, or raises
RunOutcomes == ContainerIds \cup {"ContainerError"}

start_container(available, name, outcome) ==
    IF ~available
    THEN [success |-> FALSE, error |-> "Docker service is not available",
          container_id |-> Null, container_name |-> Null]
    ELSE IF outcome \in ContainerIds
    THEN [success |-> TRUE, error |-> Null,
          container_id |-> outcome, container_name |-> "machete-tool-" \o name]
    ELSE [success |-> FALSE, error |-> outcome,
          container_id |-> Null, container_name |-> Null]

\* Methods DockerService defines.  ToolService also calls stop_container,
\* health_check and get_container_status, which it does not define.
DockerServiceMethods ==
    {"build_image", "start_container", "start_compose_stack", "stop_compose_stack",
     "_prepare_volumes", "_get_compose_containers", "get_container_logs"}

\* start_compose_stack(self, tool, compose_path)
start_compose_stack_params == <<"tool", "compose_path">>

\* Python argument binding: npos positional arguments and the keyword names kw
\* bind to params; otherwise the call raises TypeError before the body runs
CallBinds(params, npos, kw) ==
    /\ npos <= Len(params)
    /\ kw \subseteq {params[i] : i \in (npos + 1) .. Len(params)}

\* the services the compose file of the "stack" tool declares
StackServices == <<"web", "db">>

\* what 'docker-compose up -d' does under subprocess.run(timeout=300)
ComposeOutcomes == {"exit0", "nonzero_exit"}

\* the result carries 'containers' and 'logs', no 'stack_id' and no 'services'
start_compose_stack(outcome) ==
    IF outcome = "exit0"
    THEN [success |-> TRUE, error |-> Null, keys |-> {"success", "message", "containers", "logs"}]
    ELSE [success |-> FALSE, error |-> outcome, keys |-> {"success", "error"}]

\* ---------------------------------------------------------- _prepare_volumes
\* A host path is its '/'-separated segments and whether it starts with '/'.
HostPaths == {
    [absolute |-> FALSE, segs |-> <<"data">>],
    [absolute |-> FALSE, segs |-> <<".", "data">>],
    [absolute |-> FALSE, segs |-> <<".cache">>],
    [absolute |-> FALSE, segs |-> <<"..", "etc">>],
    [absolute |-> FALSE, segs |-> <<"data", "..", "logs">>],
    [absolute |-> FALSE, segs |-> <<"data", "..", "..", "etc">>],
    [absolute |-> TRUE, segs |-> <<"etc">>],
    [absolute |-> TRUE, segs |-> <<"app", "data", "tools", "scanner", "data">>] }

\* a directory mount and a file mount
ContainerPaths == {"/data/", "/etc/app.conf"}

MaxVolumes == 2

\* json.loads(tool.volumes): host paths in insertion order, each once
VolumeConfigs ==
    { cfg \in UNION { [1 .. n -> [host : HostPaths, container : ContainerPaths]] :
                         n \in 0 .. MaxVolumes } :
        \A i, j \in DOMAIN cfg : cfg[i].host = cfg[j].host => i = j }

\* settings.TOOLS_DATA_PATH
TOOLS_DATA_PATH == <<"app", "data", "tools">>

\* str.lstrip('./'): every leading '.' and '/' character goes, so leading "."
\* and ".." segments disappear and a leading dot-name loses its dot
RECURSIVE lstrip_dot_slash(_)
lstrip_dot_slash(segs) ==
    IF segs = <<>> THEN <<>>
    ELSE IF Head(segs) \in {".", ".."} THEN lstrip_dot_slash(Tail(segs))
    ELSE IF Head(segs) = ".cache" THEN <<"cache">> \o Tail(segs)
    ELSE segs

\* pathlib.Path(...): "." segments are dropped, ".." segments are kept
PurePath(segs) == SelectSeq(segs, LAMBDA x : x # ".")

\* the loop body: one entry of volume_config added to prepared_volumes, or
\* skipped when mkdir raises
RECURSIVE prepare_each(_, _, _, _)
prepare_each(tool_data_dir, volume_config, unwritable, prepared_volumes) ==
    IF volume_config = <<>> THEN prepared_volumes
    ELSE LET host_path == Head(volume_config).host
             container_path == Head(volume_config).container
             full_host_path ==
                 IF ~host_path.absolute
                 THEN tool_data_dir \o PurePath(lstrip_dot_slash(host_path.segs))
                 ELSE PurePath(host_path.segs)
             added ==
                 [q \in DOMAIN prepared_volumes \cup {full_host_path} |->
                     IF q = full_host_path
                     THEN [bind |-> container_path, mode |-> "rw"]
                     ELSE prepared_volumes[q]]
         IN  prepare_each(tool_data_dir, Tail(volume_config), unwritable,
                          IF host_path \in unwritable THEN prepared_volumes ELSE added)

\* DockerService._prepare_volumes: the mapping handed to containers.run
_prepare_volumes(tool_name, volume_config, unwritable) ==
    prepare_each(TOOLS_DATA_PATH \o <<tool_name>>, volume_config, unwritable, <<>>)

\* ============================================================== ToolService

\* str.split('.')[0] on the descriptions the repositories carry
split_dot_first(text) ==
    CASE text = "Scans hosts. Fast" -> "Scans hosts"
      [] OTHER -> text

\* build_log of a row that no build has written
NoBuildLog == <<Null>>

\* A Tool row as the service reads and writes it: the columns this model
\* follows, with the column defaults.
Tool(tool_data) ==
    [name |-> tool_data.name,
     status |-> tool_data.status,
     has_compose |-> tool_data.has_compose,
     compose_file |-> tool_data.compose_file,
     container_id |-> Null,
     build_log |-> NoBuildLog,
     error_message |-> Null,
     last_health_check |-> Null]

\* select(Tool).where(Tool.id == tool_id): the ids that match
get_tool(db, tool_id) == {i \in DOMAIN db : i = tool_id}

\* a lookup that never finds the row
get_tool_by_name_never(db, name) == {}

\* select(Tool).where(Tool.name == name): the ids that match
get_tool_by_name(db, name) == {i \in DOMAIN db : db[i].name = name}

\* db.add + commit: the row is stored under the next id
create_tool(db, id, tool_data) ==
    [i \in DOMAIN db \cup {id} |-> IF i = id THEN Tool(tool_data) ELSE db[i]]

\* update(Tool).where(Tool.id == tool_id).values(**values)
update_tool(db, tool_id, values) ==
    [i \in DOMAIN db |->
        IF i = tool_id
        THEN [f \in DOMAIN db[i] |-> IF f \in DOMAIN values THEN values[f] ELSE db[i][f]]
        ELSE db[i]]

\* delete(Tool).where(Tool.id == tool_id)
delete_row(db, tool_id) == [i \in DOMAIN db \ {tool_id} |-> db[i]]

\* ToolType.COMPOSE is no member of ToolType: the lookup raises AttributeError
_determine_tool_type(metadata) ==
    IF metadata.has_compose THEN "COMPOSE"
    ELSE IF Truthy(metadata.port) THEN "web"
    ELSE "cli"

\* tempfile.mkdtemp: a directory that did not exist
TempDirIds == 1 .. MaxDirs

mkdtemp(disk) == CHOOSE d \in TempDirIds : d \notin disk /\ \A e \in 1 .. (d - 1) : e \in disk

CanMkdtemp == TempDirIds \ dirs # {}

\* the directory a caller may hand to build as its build context
CallerContexts == {0}

NoArgs == [none |-> TRUE]

NoResult ==
    [op |-> "none", args |-> NoArgs, tool_id |-> 0, success |-> TRUE, error_code |-> "",
     error |-> Null, tool_name |-> Null, events |-> <<>>, made_dir |-> FALSE,
     temp_dir |-> 0, structure_score |-> 0, critical_errors |-> {},
     branch |-> "none", adapter |-> "none", services |-> <<>>, healthy |-> Null,
     troubleshooting |-> NoGuide, volumes |-> <<>>]

\* the requests that can be in flight together
Procs == {"p1", "p2"}

\* a request that has not begun
Idle == [op |-> "none", pc |-> "idle", tool_id |-> 0, ret |-> NoResult]

NoFlights == [p \in Procs |-> Idle]

\* a message of the form {"success": False, "error": "Tool not found"}
not_found_result_ok(base) == base

\* if not tool: return {"success": False, "error": "Tool not found"}
not_found_result(base) == [base EXCEPT !.success = FALSE, !.error = "Tool not found"]

Init ==
    /\ tools = <<>>
    /\ nextId = 1
    /\ dirs = CallerContexts
    /\ repoDirs = {}
    /\ is_available \in BOOLEAN
    /\ instances = {}
    /\ inflight = NoFlights
    /\ result = NoResult

\* ------------------------------------------------------------ install_tool
\* validate_and_clone_repository on every input of the model
CloneResults ==
    [git_url \in Urls |-> [remote \in Remotes |->
        validate_and_clone_repository(git_url, remote.accessible, remote.clone,
                                      remote.repo)]]

\* name or metadata.get("name") or git_url.split("/")[-1].replace(".git", "")
resolve_tool_name(name, metadata, git_url) ==
    Or3(name, metadata.name, ReplaceDotGit(git_url.last))

\* the row stored before tool_data's faults can surface
persist_step_before_fault(db, id, tool_data, duplicate, raises) ==
    IF duplicate THEN db ELSE create_tool(db, id, tool_data)

\* Steps 3 and 4: the duplicate check returns before anything is stored, and
\* building tool_data raises (None.split, ToolType.COMPOSE) before create_tool
persist_step(db, id, tool_data, duplicate, raises) ==
    IF duplicate \/ raises THEN db ELSE create_tool(db, id, tool_data)

install_tool(git_url, name, remote) ==
    LET cr == CloneResults[git_url][remote]
        d == mkdtemp(dirs)
        disk1 == IF cr.made_dir /\ cr.temp_dir_exists THEN dirs \cup {d} ELSE dirs
        repo1 == IF cr.made_dir /\ cr.repo_exists THEN repoDirs \cup {d} ELSE repoDirs
        metadata == cr.metadata
        tool_name == resolve_tool_name(name, metadata, git_url)
        duplicate == get_tool_by_name(tools, tool_name) # {}
        tool_type == _determine_tool_type(metadata)
        \* None.split('.') and ToolType.COMPOSE both raise AttributeError
        raises == metadata.description = Null \/ tool_type \notin ToolType
        \* str(e): the display_name entry is evaluated before the tool_type entry
        fault == IF metadata.description = Null
                 THEN "'NoneType' object has no attribute 'split'"
                 ELSE "COMPOSE"
        tool_data ==
            [name |-> tool_name,
             display_name |-> split_dot_first(metadata.description),
             tool_type |-> tool_type,
             status |-> PENDING,
             has_compose |-> metadata.has_compose,
             compose_file |-> metadata.compose_file]
        base == [NoResult EXCEPT
                    !.op = "install",
                    !.args = [git_url |-> git_url, name |-> name, remote |-> remote],
                    !.made_dir = cr.made_dir,
                    !.temp_dir = IF cr.made_dir THEN d ELSE 0,
                    !.structure_score = cr.structure.structure_score,
                    !.critical_errors = cr.structure.critical_errors]
        log1 == <<"repository_validation">> \o cr.steps
        log3 == log1 \o <<"name_resolution", "duplicate_check">>
        log4 == log3 \o <<"database_storage">>
        log6 == log4 \o <<"docker_build_preparation", "cleanup">>
    IN  /\ cr.made_dir => CanMkdtemp
        /\ IF ~cr.success
           THEN /\ result' = [base EXCEPT !.success = FALSE,
                                          !.error_code = cr.error_code,
                                          !.troubleshooting = cr.troubleshooting,
                                          !.events = log1]
                /\ dirs' = disk1 /\ repoDirs' = repo1
                /\ UNCHANGED <<tools, nextId>>
           ELSE /\ (~duplicate /\ ~raises) => nextId <= MaxIds
                /\ tools' = persist_step(tools, nextId, tool_data, duplicate, raises)
                /\ nextId' = IF DOMAIN tools' = DOMAIN tools THEN nextId ELSE nextId + 1
                /\ dirs' = disk1
                \* only the success path reaches cleanup_repository(repo_path),
                \* and repo_path is <temp_dir>/repo
                /\ repoDirs' = IF duplicate \/ raises THEN repo1
                               ELSE cleanup_repository(repo1, d)
                /\ result' =
                     IF duplicate
                     THEN [base EXCEPT !.success = FALSE, !.error_code = "TOOL_EXISTS",
                                       !.tool_name = tool_name, !.events = log3]
                     ELSE IF raises
                     THEN [base EXCEPT !.success = FALSE,
                                       !.error_code = "INSTALLATION_FAILED",
                                       !.error = "Installation failed: " \o fault,
                                       !.tool_name = tool_name, !.events = log4]
                     ELSE [base EXCEPT !.success = TRUE, !.tool_id = nextId,
                                       !.tool_name = tool_name, !.events = log6]
        /\ UNCHANGED <<is_available, instances, inflight>>

\* -------------------------------------------------------------- build_tool
\* the clone failure recorded without a status
clone_failure_values_no_status(clone_result) ==
    [error_message |-> "Failed to clone repository: " \o clone_result.error]

\* the values of the three updates that end a build
clone_failure_values(clone_result) ==
    [status |-> FAILED,
     error_message |-> "Failed to clone repository: " \o clone_result.error]

\* a successful build that leaves the earlier error in place
build_success_values_keeps_error(build_result) ==
    [status |-> STOPPED, build_log |-> build_result.logs]

build_success_values(build_result) ==
    [status |-> STOPPED, build_log |-> build_result.logs, error_message |-> Null]

\* the build failure recorded without its log
build_failure_values_no_log(build_result) ==
    [status |-> FAILED, error_message |-> build_result.error]

build_failure_values(build_result) ==
    [status |-> FAILED, build_log |-> build_result.logs,
     error_message |-> build_result.error]

\* a finally block that removes whatever the build ran in
finally_cleanup_build_context(disk, temp_repo, build_context) ==
    cleanup_repository(disk, build_context)

\* finally: if temp_repo: cleanup_repository(temp_repo)
finally_cleanup(disk, temp_repo, build_context) ==
    IF temp_repo.set THEN cleanup_repository(disk, temp_repo.path) ELSE disk

build_tool(tool_id, given_context, clone, outcome, output) ==
    LET found == get_tool(tools, tool_id) # {}
        db1 == update_tool(tools, tool_id, [status |-> BUILDING])
        d == mkdtemp(dirs)
        cr == clone_repository(clone)
        temp_repo == [set |-> ~given_context, path |-> IF given_context THEN 0 ELSE d]
        build_context == IF given_context THEN CHOOSE c \in CallerContexts : TRUE ELSE d
        br == build_image(is_available, outcome, output)
        base == [NoResult EXCEPT !.op = "build", !.tool_id = tool_id,
                    !.args = [given_context |-> given_context, clone |-> clone,
                              outcome |-> outcome, output |-> output]]
        own == [base EXCEPT !.made_dir = TRUE, !.temp_dir = d]
        e1 == <<"status:building">>
        e2 == IF given_context THEN e1 ELSE e1 \o <<"clone_repository">>
        e3 == e2 \o <<"build_image">>
        fin == IF given_context THEN <<>> ELSE <<"cleanup_repository">>
    IN  /\ IF ~found
           THEN /\ result' = not_found_result(base)
                /\ UNCHANGED <<tools, dirs>>
           ELSE /\ ~given_context => CanMkdtemp
                /\ IF ~given_context /\ ~cr.success
                   THEN /\ tools' = update_tool(db1, tool_id, clone_failure_values(cr))
                        /\ dirs' = IF cr.path_exists THEN dirs \cup {d} ELSE dirs
                        /\ result' = [own EXCEPT !.success = FALSE, !.error = cr.error,
                                                 !.events = e2 \o <<"status:failed">>]
                   ELSE /\ tools' = update_tool(db1, tool_id,
                                        IF br.success THEN build_success_values(br)
                                        ELSE build_failure_values(br))
                        /\ dirs' = finally_cleanup(
                                        IF given_context THEN dirs ELSE dirs \cup {d},
                                        temp_repo, build_context)
                        /\ result' =
                             [(IF given_context THEN base ELSE own) EXCEPT
                                !.success = br.success,
                                !.error = br.error,
                                !.events = e3 \o <<IF br.success THEN "status:stopped"
                                                   ELSE "status:failed">> \o fin]
        /\ UNCHANGED <<nextId, repoDirs, is_available, instances, inflight>>

\* -------------------------------------------------------------- start_tool
\* getattr(tool, 'has_compose', False) and tool.compose_file
uses_compose(tool) == tool.has_compose /\ Truthy(tool.compose_file)

\* a successful start that records no identifier
start_success_values_no_id(container_id) ==
    [status |-> RUNNING, error_message |-> Null]

\* a successful start that leaves the earlier error in place
start_success_values_keeps_error(container_id) ==
    [status |-> RUNNING, container_id |-> container_id]

\* the values of the update after a start that succeeded
start_success_values(container_id) ==
    [status |-> RUNNING, container_id |-> container_id, error_message |-> Null]

\* a failed start recorded without a status
start_failure_values_no_status(msg) == [error_message |-> msg]

\* a failed start that still records an identifier
start_failure_values_with_id(msg) ==
    [status |-> FAILED, error_message |-> msg, container_id |-> "c1"]

\* the values of the update after a start that failed or raised
start_failure_values(msg) == [status |-> FAILED, error_message |-> msg]

\* a start that never takes the row for running
already_running_never(tool) == FALSE

\* if tool.status == ToolStatus.RUNNING: return success
already_running(tool) == tool.status = RUNNING

\* what start_tool does on the rows db: the rows after it and what it returns
start_outcome(db, tool_id, run, up) ==
    LET found == get_tool(db, tool_id) # {}
        tool == db[tool_id]
        \* start_compose_stack(tool_path, tool.compose_file, tool_name=tool.name)
        binds == CallBinds(start_compose_stack_params, 2, {"tool_name"})
        cs == start_compose_stack(up)
        sc == start_container(is_available, tool.name, run)
        base == [NoResult EXCEPT !.op = "start", !.tool_id = tool_id,
                                 !.args = [run |-> run, up |-> up]]
        failed(msg, b, a) ==
            [db |-> update_tool(db, tool_id, start_failure_values(msg)),
             values |-> start_failure_values(msg),
             started |-> FALSE,
             result |-> [base EXCEPT !.success = FALSE, !.error = msg,
                                     !.branch = b, !.adapter = a,
                                     !.events = <<"status:failed">>]]
        started(cid, b, services) ==
            [db |-> update_tool(db, tool_id, start_success_values(cid)),
             values |-> start_success_values(cid),
             started |-> TRUE,
             result |-> [base EXCEPT !.branch = b, !.adapter = b,
                                     !.services = services,
                                     !.events = <<"status:running">>]]
    IN  IF ~found THEN [db |-> db, values |-> <<>>, started |-> FALSE,
                        result |-> not_found_result(base)]
        ELSE IF already_running(tool)
             THEN [db |-> db, values |-> <<>>, started |-> FALSE, result |-> base]
        ELSE IF uses_compose(tool)
        THEN IF ~binds THEN failed("TypeError", "compose", "none")
             ELSE IF ~cs.success THEN failed(cs.error, "compose", "compose")
             \* start_result.get("stack_id", f"compose-{tool.name}") and
             \* start_result.get("services", []): the adapter returns neither key
             ELSE started("compose-" \o tool.name, "compose",
                          IF "services" \in cs.keys THEN StackServices ELSE <<>>)
        ELSE IF ~sc.success THEN failed(sc.error, "single", "single")
             ELSE started(sc.container_id, "single", <<>>)

\* the engine after the start: a call that returned a container or brought
\* the stack up leaves the tool's instance running
start_instances(running, db, tool_id, run, up) ==
    IF start_outcome(db, tool_id, run, up).started
    THEN running \cup {db[tool_id].name} ELSE running

start_tool(tool_id, run, up) ==
    LET o == start_outcome(tools, tool_id, run, up)
    IN  /\ tools' = o.db
        /\ result' = o.result
        /\ instances' = start_instances(instances, tools, tool_id, run, up)
        /\ UNCHANGED <<nextId, dirs, repoDirs, is_available, inflight>>

\* --------------------------------------------------------------- stop_tool
\* what the engine would do when asked to stop the container or take the
\* stack down
StopOutcomes == {"stopped", "not_found", "engine_error"}

\* Both adapter calls fail before the engine is asked: stop_container is no
\* method of DockerService (AttributeError in stop_tool's try block), and
\* stop_compose_stack reads tool.name of the path string it is handed as
\* 'tool' (AttributeError caught inside the adapter, which returns the failure).
stop_result(db, tool_id, down) ==
    LET base == [NoResult EXCEPT !.op = "stop", !.tool_id = tool_id,
                                 !.args = [down |-> down]]
        tool == db[tool_id]
    IN  IF get_tool(db, tool_id) = {} THEN not_found_result(base)
        ELSE IF ~Truthy(tool.container_id) THEN base
        ELSE IF uses_compose(tool)
        THEN [base EXCEPT !.success = FALSE, !.error = "AttributeError",
                          !.branch = "compose", !.adapter = "compose"]
        ELSE IF "stop_container" \notin DockerServiceMethods
        THEN [base EXCEPT !.success = FALSE, !.error = "AttributeError",
                          !.branch = "single"]
        ELSE IF down # "stopped"
        THEN [base EXCEPT !.success = FALSE, !.error = "Failed to stop container",
                          !.branch = "single", !.adapter = "single"]
        ELSE [base EXCEPT !.branch = "single", !.adapter = "single",
                          !.events = <<"status:stopped">>]

stop_db(db, tool_id, down) ==
    IF stop_result(db, tool_id, down).events = <<"status:stopped">>
    THEN update_tool(db, tool_id, [status |-> STOPPED, error_message |-> Null])
    ELSE db

\* the engine after the stop: only a call that reached the engine and
\* stopped the instance takes it away
stop_instances(running, db, tool_id, down) ==
    IF stop_result(db, tool_id, down).events = <<"status:stopped">>
    THEN running \ {db[tool_id].name} ELSE running

stop_tool(tool_id, down) ==
    /\ result' = stop_result(tools, tool_id, down)
    /\ tools' = stop_db(tools, tool_id, down)
    /\ instances' = stop_instances(instances, tools, tool_id, down)
    /\ UNCHANGED <<nextId, dirs, repoDirs, is_available, inflight>>

\* ------------------------------------------------------------ restart_tool
\* a restart that goes on to start whatever the stop returned
restart_never_aborts(stop_res) == FALSE

\* if not stop_result["success"]: return stop_result
restart_aborts(stop_res) == ~stop_res.success

restart_tool(tool_id, down, run, up) ==
    LET sr == stop_result(tools, tool_id, down)
        db1 == stop_db(tools, tool_id, down)
        o == start_outcome(db1, tool_id, run, up)
        args == [down |-> down, run |-> run, up |-> up]
        in1 == stop_instances(instances, tools, tool_id, down)
    IN  /\ instances' = IF restart_aborts(sr) THEN in1
                        ELSE start_instances(in1, db1, tool_id, run, up)
        /\ IF restart_aborts(sr)
           THEN /\ tools' = db1
                /\ result' = [sr EXCEPT !.op = "restart", !.args = args,
                                        !.events = <<"stop_tool">> \o sr.events]
           ELSE /\ tools' = o.db
                /\ result' = [o.result EXCEPT
                                !.op = "restart", !.args = args,
                                !.events = <<"stop_tool">> \o sr.events
                                           \o <<"start_tool">> \o o.result.events]
        /\ UNCHANGED <<nextId, dirs, repoDirs, is_available, inflight>>

\* ------------------------------------------------------- health_check_tool
\* what a GET on the tool's health endpoint would give
ProbeOutcomes == {"200", "unreachable"}

\* docker_service.health_check is no method of DockerService: the call raises
\* AttributeError inside the try block, before the timestamp is written
health_check_tool(tool_id, probe) ==
    LET found == get_tool(tools, tool_id) # {}
        base == [NoResult EXCEPT !.op = "health_check", !.tool_id = tool_id,
                                 !.args = [probe |-> probe]]
    IN  /\ IF ~found
           THEN /\ result' = not_found_result(base)
                /\ UNCHANGED tools
           ELSE IF "health_check" \notin DockerServiceMethods
           THEN /\ result' = [base EXCEPT !.success = FALSE, !.error = "AttributeError"]
                /\ UNCHANGED tools
           ELSE /\ tools' = update_tool(tools, tool_id, [last_health_check |-> "utcnow"])
                /\ result' = [base EXCEPT !.adapter = "single",
                                !.healthy = IF probe = "200" THEN "True" ELSE "False"]
        /\ UNCHANGED <<nextId, dirs, repoDirs, is_available, instances, inflight>>

\* ------------------------------------------------------ update_tool_status
\* the state the engine reports for the container, or that it has none
EngineStates == {"running", "exited", "created", "restarting", "paused", "not_found"}

\* docker_service.get_container_status is no method of DockerService: the call
\* raises AttributeError inside the try block, before any status is written.
\* What the call returned would be compared with the row and written as it is.
update_tool_status(tool_id, engine_state) ==
    LET found == get_tool(tools, tool_id) # {}
        base == [NoResult EXCEPT !.op = "update_tool_status", !.tool_id = tool_id,
                                 !.args = [engine_state |-> engine_state]]
    IN  /\ IF ~found \/ ~Truthy(tools[tool_id].container_id)
           THEN /\ result' = [base EXCEPT !.success = FALSE,
                                 !.error = "Tool not found or not containerized"]
                /\ UNCHANGED tools
           ELSE IF "get_container_status" \notin DockerServiceMethods
           THEN /\ result' = [base EXCEPT !.success = FALSE, !.error = "AttributeError"]
                /\ UNCHANGED tools
           ELSE /\ tools' = IF tools[tool_id].status # engine_state
                            THEN update_tool(tools, tool_id, [status |-> engine_state])
                            ELSE tools
                /\ result' = [base EXCEPT !.adapter = "single"]
        /\ UNCHANGED <<nextId, dirs, repoDirs, is_available, instances, inflight>>

\* ------------------------------------------------------------- delete_tool
\* the stop result is not looked at: the row is deleted whatever it was
delete_tool(tool_id, down) ==
    LET found == get_tool(tools, tool_id) # {}
        base == [NoResult EXCEPT !.op = "delete", !.tool_id = tool_id,
                                 !.args = [down |-> down]]
        stops == Truthy(tools[tool_id].container_id)
        sr == stop_result(tools, tool_id, down)
    IN  /\ instances' = IF found /\ stops
                        THEN stop_instances(instances, tools, tool_id, down)
                        ELSE instances
        /\ IF ~found
           THEN /\ result' = [base EXCEPT !.success = FALSE]
                /\ UNCHANGED tools
           ELSE /\ tools' = delete_row(IF stops THEN stop_db(tools, tool_id, down)
                                       ELSE tools, tool_id)
                /\ result' = [base EXCEPT
                                !.branch = IF stops THEN sr.branch ELSE "none",
                                !.adapter = IF stops THEN sr.adapter ELSE "none",
                                !.events = IF stops THEN <<"stop_tool">> \o sr.events
                                                         \o <<"delete">>
                                           ELSE <<"delete">>]
        /\ UNCHANGED <<nextId, dirs, repoDirs, is_available, inflight>>

\* ------------------------------------------------------------- create_tool
\* rows handed to create_tool directly
DirectToolData == {
    [name |-> "stack", display_name |-> "Stack", tool_type |-> "web", status |-> PENDING,
     has_compose |-> TRUE, compose_file |-> "docker-compose.yml"],
    [name |-> "scanner", display_name |-> "Scanner", tool_type |-> "cli", status |-> PENDING,
     has_compose |-> FALSE, compose_file |-> Null] }

\* Tool.name is unique: the commit of a second row with the name raises
create_tool_direct(tool_data) ==
    LET base == [NoResult EXCEPT !.op = "create", !.tool_name = tool_data.name]
    IN  /\ nextId <= MaxIds
        /\ IF get_tool_by_name(tools, tool_data.name) # {}
           THEN /\ result' = [base EXCEPT !.success = FALSE, !.error = "IntegrityError"]
                /\ UNCHANGED <<tools, nextId>>
           ELSE /\ tools' = create_tool(tools, nextId, tool_data)
                /\ nextId' = nextId + 1
                /\ result' = [base EXCEPT !.tool_id = nextId]
        /\ UNCHANGED <<dirs, repoDirs, is_available, instances, inflight>>

\* ------------------------------------------------------------------ actions
ToolIds == 1 .. MaxIds

Install ==
    \E git_url \in Urls, name \in RequestedNames, remote \in Remotes :
        install_tool(git_url, name, remote)

Build ==
    \E tool_id \in ToolIds, given_context \in BOOLEAN, clone \in RepoCloneOutcomes,
       outcome \in BuildOutcomes, output \in BuildOutputs :
        build_tool(tool_id, given_context, clone, outcome, output)

Start ==
    \E tool_id \in ToolIds, run \in RunOutcomes, up \in ComposeOutcomes :
        start_tool(tool_id, run, up)

Stop == \E tool_id \in ToolIds, down \in StopOutcomes : stop_tool(tool_id, down)

Restart ==
    \E tool_id \in ToolIds, down \in StopOutcomes, run \in RunOutcomes,
       up \in ComposeOutcomes :
        restart_tool(tool_id, down, run, up)

HealthCheck ==
    \E tool_id \in ToolIds, probe \in ProbeOutcomes : health_check_tool(tool_id, probe)

Delete == \E tool_id \in ToolIds, down \in StopOutcomes : delete_tool(tool_id, down)

Create == \E tool_data \in DirectToolData : create_tool_direct(tool_data)

Next == Install \/ Build \/ Start \/ Stop \/ Restart \/ HealthCheck \/ Delete \/ Create

Spec == Init /\ [][Next]_vars

\* Registration alone: installs, direct creates and deletes
NextInstall == Install \/ Create \/ Delete

SpecInstall == Init /\ [][NextInstall]_vars

\* Installed tools and their builds
NextBuild == Install \/ Build \/ Delete

SpecBuild == Init /\ [][NextBuild]_vars

\* Created tools (single-container and compose) built, started and stopped
NextStart == Create \/ Build \/ Start \/ Stop \/ Delete

SpecStart == Init /\ [][NextStart]_vars

\* Created tools started, stopped, restarted, probed and deleted
NextOps == Create \/ Start \/ Stop \/ Restart \/ HealthCheck \/ Delete

SpecOps == Init /\ [][NextOps]_vars

\* Created tools built and started, again after failures
NextRetry == Create \/ Build \/ Start

SpecRetry == Init /\ [][NextRetry]_vars

\* builds asked for an id that matches no row
BuildAbsent ==
    \E tool_id \in ToolIds \ DOMAIN tools, given_context \in BOOLEAN,
       clone \in RepoCloneOutcomes, outcome \in BuildOutcomes, output \in BuildOutputs :
        build_tool(tool_id, given_context, clone, outcome, output)

\* Every operation that takes a tool id, on created tools; the builds are
\* those of absent ids
NextById == Create \/ BuildAbsent \/ Start \/ Stop \/ Restart \/ HealthCheck \/ Delete

SpecById == Init /\ [][NextById]_vars

\* GET /{tool_id}/status
Refresh ==
    \E tool_id \in ToolIds, engine_state \in EngineStates :
        update_tool_status(tool_id, engine_state)

\* Status refreshes of created and started tools
NextRefresh == Create \/ Start \/ Stop \/ Refresh

SpecRefresh == Init /\ [][NextRefresh]_vars

\* builds in a build context the caller supplies: nothing is cloned
BuildInContext ==
    \E tool_id \in ToolIds, outcome \in BuildOutcomes, output \in BuildOutputs :
        build_tool(tool_id, TRUE, "cloned", outcome, output)

\* One operation after the other on created tools: builds, starts, stops
\* and status refreshes
NextSequential == Create \/ BuildInContext \/ Start \/ Stop \/ Refresh

SpecSequential == Init /\ [][NextSequential]_vars

\* ------------------------------------------------------ requests in flight
\* a per-tool lock: no request begins on a tool another one is working on
may_begin_exclusive(flights, tool_id) ==
    \A q \in Procs : flights[q].pc \in {"idle", "done"} \/ flights[q].tool_id # tool_id

\* start_tool, stop_tool and build_tool take no lock before they read the row
may_begin(flights, tool_id) == TRUE

\* the row a request read, as the only row of a database
Snapshot(flight) == flight.tool_id :> flight.seen

\* tool = await self.get_tool(db, tool_id) and the checks of start_tool that
\* follow it
begin_start(p, tool_id) ==
    LET base == [NoResult EXCEPT !.op = "start", !.tool_id = tool_id]
        flight == [op |-> "start", tool_id |-> tool_id]
    IN  /\ inflight[p].pc = "idle"
        /\ may_begin(inflight, tool_id)
        /\ inflight' = [inflight EXCEPT ![p] =
              IF get_tool(tools, tool_id) = {}
              THEN flight @@ [pc |-> "done", ret |-> not_found_result(base)]
              ELSE IF already_running(tools[tool_id])
              THEN flight @@ [pc |-> "done", ret |-> base, seen |-> tools[tool_id]]
              ELSE flight @@ [pc |-> "call", ret |-> NoResult, seen |-> tools[tool_id]]]
        /\ UNCHANGED <<tools, nextId, dirs, repoDirs, is_available, instances, result>>

\* the adapter call of start_tool on the row it read, up to the update it
\* is about to await
start_call(p, run, up) ==
    LET f == inflight[p]
        o == start_outcome(Snapshot(f), f.tool_id, run, up)
    IN  /\ f.op = "start" /\ f.pc = "call"
        /\ instances' = start_instances(instances, Snapshot(f), f.tool_id, run, up)
        /\ inflight' = [inflight EXCEPT ![p] =
              [op |-> "start", tool_id |-> f.tool_id, seen |-> f.seen,
               pc |-> "write", values |-> o.values, ret |-> o.result]]
        /\ UNCHANGED <<tools, nextId, dirs, repoDirs, is_available, result>>

\* tool = await self.get_tool(db, tool_id) of build_tool
begin_build(p, tool_id) ==
    LET base == [NoResult EXCEPT !.op = "build", !.tool_id = tool_id]
        flight == [op |-> "build", tool_id |-> tool_id]
    IN  /\ inflight[p].pc = "idle"
        /\ may_begin(inflight, tool_id)
        /\ inflight' = [inflight EXCEPT ![p] =
              IF get_tool(tools, tool_id) = {}
              THEN flight @@ [pc |-> "done", ret |-> not_found_result(base)]
              ELSE flight @@ [pc |-> "mark", ret |-> NoResult, seen |-> tools[tool_id]]]
        /\ UNCHANGED <<tools, nextId, dirs, repoDirs, is_available, instances, result>>

\* await self.update_tool(db, tool_id, {"status": ToolStatus.BUILDING})
build_mark(p) ==
    LET f == inflight[p]
    IN  /\ f.op = "build" /\ f.pc = "mark"
        /\ tools' = update_tool(tools, f.tool_id, [status |-> BUILDING])
        /\ inflight' = [inflight EXCEPT ![p].pc = "call"]
        /\ UNCHANGED <<nextId, dirs, repoDirs, is_available, instances, result>>

\* build_image in the build context the caller supplied, up to the update
\* build_tool is about to await
build_call(p, outcome, output) ==
    LET f == inflight[p]
        br == build_image(is_available, outcome, output)
        base == [NoResult EXCEPT !.op = "build", !.tool_id = f.tool_id]
    IN  /\ f.op = "build" /\ f.pc = "call"
        /\ inflight' = [inflight EXCEPT ![p] =
              [op |-> "build", tool_id |-> f.tool_id, seen |-> f.seen,
               pc |-> "write",
               values |-> IF br.success THEN build_success_values(br)
                          ELSE build_failure_values(br),
               ret |-> [base EXCEPT
                          !.success = br.success, !.error = br.error,
                          !.events = <<"status:building", "build_image",
                                       IF br.success THEN "status:stopped"
                                       ELSE "status:failed">>]]]
        /\ UNCHANGED <<tools, nextId, dirs, repoDirs, is_available, instances, result>>

\* tool = await self.get_tool(db, tool_id) and the check of stop_tool that
\* follows it
begin_stop(p, tool_id) ==
    LET base == [NoResult EXCEPT !.op = "stop", !.tool_id = tool_id]
        flight == [op |-> "stop", tool_id |-> tool_id]
    IN  /\ inflight[p].pc = "idle"
        /\ may_begin(inflight, tool_id)
        /\ inflight' = [inflight EXCEPT ![p] =
              IF get_tool(tools, tool_id) = {}
              THEN flight @@ [pc |-> "done", ret |-> not_found_result(base)]
              ELSE IF ~Truthy(tools[tool_id].container_id)
              THEN flight @@ [pc |-> "done", ret |-> base, seen |-> tools[tool_id]]
              ELSE flight @@ [pc |-> "call", ret |-> NoResult, seen |-> tools[tool_id]]]
        /\ UNCHANGED <<tools, nextId, dirs, repoDirs, is_available, instances, result>>

\* the adapter call of stop_tool on the row it read: a failure is returned
\* at once, a stop that worked goes on to the update
stop_call(p, down) ==
    LET f == inflight[p]
        sr == stop_result(Snapshot(f), f.tool_id, down)
        stopped == sr.events = <<"status:stopped">>
    IN  /\ f.op = "stop" /\ f.pc = "call"
        /\ instances' = stop_instances(instances, Snapshot(f), f.tool_id, down)
        /\ inflight' = [inflight EXCEPT ![p] =
              [op |-> "stop", tool_id |-> f.tool_id, seen |-> f.seen,
               pc |-> IF stopped THEN "write" ELSE "done",
               values |-> IF stopped THEN [status |-> STOPPED, error_message |-> Null]
                          ELSE <<>>,
               ret |-> sr]]
        /\ UNCHANGED <<tools, nextId, dirs, repoDirs, is_available, result>>

\* await self.update_tool(db, tool_id, {...}) with the values the request
\* made from the row it read, and the return that follows
write_status(p) ==
    LET f == inflight[p]
    IN  /\ f.pc = "write"
        /\ tools' = update_tool(tools, f.tool_id, f.values)
        /\ inflight' = [inflight EXCEPT ![p].pc = "done"]
        /\ UNCHANGED <<nextId, dirs, repoDirs, is_available, instances, result>>

BeginStart == \E p \in Procs, tool_id \in ToolIds : begin_start(p, tool_id)

StartCall == \E p \in Procs, run \in RunOutcomes, up \in ComposeOutcomes : start_call(p, run, up)

BeginBuild == \E p \in Procs, tool_id \in ToolIds : begin_build(p, tool_id)

BuildMark == \E p \in Procs : build_mark(p)

BuildCall ==
    \E p \in Procs, outcome \in BuildOutcomes, output \in BuildOutputs :
        build_call(p, outcome, output)

BeginStop == \E p \in Procs, tool_id \in ToolIds : begin_stop(p, tool_id)

StopCall == \E p \in Procs, down \in StopOutcomes : stop_call(p, down)

WriteStatus == \E p \in Procs : write_status(p)

\* Two requests, each one operation, on a single-container tool that was
\* created, or created and started
InitRace ==
    LET fresh == create_tool(<<>>, 1, CHOOSE d \in DirectToolData : ~d.has_compose)
        begun == update_tool(fresh, 1, start_success_values("c1"))
    IN  /\ \/ tools = fresh /\ instances = {}
           \/ tools = begun /\ instances = {begun[1].name}
        /\ nextId = 2
        /\ dirs = CallerContexts
        /\ repoDirs = {}
        /\ is_available = TRUE
        /\ inflight = NoFlights
        /\ result = NoResult

NextRace ==
    BeginStart \/ StartCall \/ BeginBuild \/ BuildMark \/ BuildCall \/ BeginStop
        \/ StopCall \/ WriteStatus

SpecRace == InitRace /\ [][NextRace]_vars

\* install_tool up to the await of create_tool: validation and clone, name
\* resolution, the duplicate check on the rows as they are now, and the
\* building of tool_data
install_check(p, git_url, name, remote) ==
    LET cr == CloneResults[git_url][remote]
        d == mkdtemp(dirs)
        metadata == cr.metadata
        tool_name == resolve_tool_name(name, metadata, git_url)
        duplicate == get_tool_by_name(tools, tool_name) # {}
        tool_type == _determine_tool_type(metadata)
        raises == metadata.description = Null \/ tool_type \notin ToolType
        tool_data ==
            [name |-> tool_name,
             display_name |-> split_dot_first(metadata.description),
             tool_type |-> tool_type,
             status |-> PENDING,
             has_compose |-> metadata.has_compose,
             compose_file |-> metadata.compose_file]
        base == [NoResult EXCEPT
                    !.op = "install",
                    !.args = [git_url |-> git_url, name |-> name, remote |-> remote],
                    !.made_dir = cr.made_dir,
                    !.temp_dir = IF cr.made_dir THEN d ELSE 0]
        flight == [op |-> "install", tool_id |-> 0]
        log1 == <<"repository_validation">> \o cr.steps
        log3 == log1 \o <<"name_resolution", "duplicate_check">>
        log4 == log3 \o <<"database_storage">>
    IN  /\ inflight[p].pc = "idle"
        /\ cr.made_dir => CanMkdtemp
        /\ dirs' = IF cr.made_dir /\ cr.temp_dir_exists THEN dirs \cup {d} ELSE dirs
        /\ repoDirs' = IF cr.made_dir /\ cr.repo_exists THEN repoDirs \cup {d}
                        ELSE repoDirs
        /\ inflight' = [inflight EXCEPT ![p] =
              IF ~cr.success
              THEN flight @@ [pc |-> "done",
                              ret |-> [base EXCEPT !.success = FALSE,
                                                   !.error_code = cr.error_code,
                                                   !.troubleshooting = cr.troubleshooting,
                                                   !.events = log1]]
              ELSE IF duplicate
              THEN flight @@ [pc |-> "done",
                              ret |-> [base EXCEPT !.success = FALSE,
                                                   !.error_code = "TOOL_EXISTS",
                                                   !.tool_name = tool_name,
                                                   !.events = log3]]
              ELSE IF raises
              THEN flight @@ [pc |-> "done",
                              ret |-> [base EXCEPT !.success = FALSE,
                                                   !.error_code = "INSTALLATION_FAILED",
                                                   !.tool_name = tool_name,
                                                   !.events = log4]]
              ELSE flight @@ [pc |-> "create", tool_data |-> tool_data,
                              ret |-> [base EXCEPT !.tool_name = tool_name,
                                                   !.events = log4]]]
        /\ UNCHANGED <<tools, nextId, is_available, instances, result>>

\* await self.create_tool(db, tool_data) and what follows it.  Tool.name is
\* unique: the commit of a row whose name is stored by now raises
\* IntegrityError, which the handler of install_tool returns as
\* INSTALLATION_FAILED; otherwise the row is stored and the clone removed.
install_create(p) ==
    LET f == inflight[p]
        taken == get_tool_by_name(tools, f.tool_data.name) # {}
        done(ret) == [op |-> "install", tool_id |-> ret.tool_id, pc |-> "done",
                      ret |-> ret]
    IN  /\ f.op = "install" /\ f.pc = "create"
        /\ ~taken => nextId <= MaxIds
        /\ IF taken
           THEN /\ inflight' = [inflight EXCEPT ![p] =
                      done([f.ret EXCEPT
                               !.success = FALSE,
                               !.error_code = "INSTALLATION_FAILED",
                               !.error = "Installation failed: IntegrityError"])]
                /\ UNCHANGED <<tools, nextId, repoDirs>>
           ELSE /\ tools' = create_tool(tools, nextId, f.tool_data)
                /\ nextId' = nextId + 1
                /\ repoDirs' = cleanup_repository(repoDirs, f.ret.temp_dir)
                /\ inflight' = [inflight EXCEPT ![p] =
                      done([f.ret EXCEPT
                               !.success = TRUE, !.tool_id = nextId,
                               !.events = f.ret.events
                                   \o <<"docker_build_preparation", "cleanup">>])]
        /\ UNCHANGED <<dirs, is_available, instances, result>>

InstallCheck ==
    \E p \in Procs, git_url \in Urls, name \in RequestedNames, remote \in Remotes :
        install_check(p, git_url, name, remote)

InstallCreate == \E p \in Procs : install_create(p)

\* Two install requests in flight on an empty registry
NextInstallRace == InstallCheck \/ InstallCreate

SpecInstallRace == Init /\ [][NextInstallRace]_vars

\* the paths a caller may hand to cleanup: the empty path, the caller's
\* directory, every temporary directory and one that never existed
CleanupPaths ==
    {[set |-> FALSE, path |-> 0]}
    \cup {[set |-> TRUE, path |-> d] : d \in CallerContexts \cup (1 .. (MaxDirs + 1))}

\* git_service.cleanup_repository(repo_path); removing a temporary directory
\* removes the clone inside it
Cleanup ==
    \E repo_path \in CleanupPaths :
        LET c == cleanup_repository_call(dirs, repo_path)
        IN  /\ dirs' = c.disk
            /\ repoDirs' = IF c.rmtree THEN cleanup_repository(repoDirs, repo_path.path)
                            ELSE repoDirs
            /\ result' = [NoResult EXCEPT
                             !.op = "cleanup",
                             !.args = [repo_path |-> repo_path],
                             !.success = c.returns,
                             !.events = IF c.rmtree THEN <<"rmtree">> ELSE <<>>]
            /\ UNCHANGED <<tools, nextId, is_available, instances, inflight>>

\* Cleanup on its own: the directories that installs and builds can have
\* left behind, and cleanup calls in any order
InitCleanup ==
    /\ tools = <<>>
    /\ nextId = 1
    /\ dirs \in SUBSET (CallerContexts \cup TempDirIds)
    /\ repoDirs \in SUBSET (dirs \cap TempDirIds)
    /\ is_available \in BOOLEAN
    /\ instances = {}
    /\ inflight = NoFlights
    /\ result = NoResult

NextCleanup == Cleanup

SpecCleanup == InitCleanup /\ [][NextCleanup]_vars

\* Volume preparation on its own: a stored volume configuration, the host
\* paths whose directories cannot be made, and the call that prepares them
InitVolumes ==
    /\ tools = <<>>
    /\ nextId = 1
    /\ dirs = CallerContexts
    /\ repoDirs = {}
    /\ is_available = TRUE
    /\ instances = {}
    /\ inflight = NoFlights
    /\ \E volume_config \in VolumeConfigs :
         \E unwritable \in SUBSET {volume_config[i].host : i \in DOMAIN volume_config} :
            result = [NoResult EXCEPT
                         !.op = "volume_config",
                         !.tool_name = "scanner",
                         !.args = [volume_config |-> volume_config,
                                   unwritable |-> unwritable]]

\* volumes = self._prepare_volumes(tool.name, volume_config)
PrepareVolumes ==
    /\ result.op = "volume_config"
    /\ result' = [result EXCEPT
                     !.op = "prepare_volumes",
                     !.volumes = _prepare_volumes(result.tool_name,
                                                  result.args.volume_config,
                                                  result.args.unwritable)]
    /\ UNCHANGED <<tools, nextId, dirs, repoDirs, is_available, instances, inflight>>

NextVolumes == PrepareVolumes

SpecVolumes == InitVolumes /\ [][NextVolumes]_vars

\* ================================================================== claims

InSeq(x, seq) == \E i \in 1 .. Len(seq) : seq[i] = x

Before(x, y, seq) ==
    \A j \in 1 .. Len(seq) : seq[j] = y => \E i \in 1 .. (j - 1) : seq[i] = x

\* the install reached the clone and the clone succeeded
CloneSucceeded(a) ==
    _is_valid_git_url(a.git_url) /\ a.remote.accessible /\ a.remote.clone = "ok"

\* C1: an install whose resolved name is the name of a persisted tool returns
\* success=false with TOOL_EXISTS and stores nothing, and after every step no
\* two persisted tools share a name.
C1_DuplicateNameRejected ==
    [][ /\ ( /\ result'.op = "install"
             /\ result'.tool_name # Null
             /\ \E i \in DOMAIN tools : tools[i].name = result'.tool_name )
           => ( /\ ~result'.success
                /\ result'.error_code = "TOOL_EXISTS"
                /\ tools' = tools )
        /\ \A i, j \in DOMAIN tools' : tools'[i].name = tools'[j].name => i = j ]_vars

C1_Witness ==
    /\ result.op = "install"
    /\ result.error_code = "TOOL_EXISTS"
    /\ \E i \in DOMAIN tools : tools[i].name = result.tool_name
    /\ Cardinality(DOMAIN tools) = 2

\* C2: an install that returns success=false, at whichever step it failed,
\* leaves the persisted Tool rows as they were before the call.
C2_FailedInstallPersistsNothing ==
    [][ (result'.op = "install" /\ ~result'.success) => tools' = tools ]_vars

C2_Witness ==
    /\ result.op = "install"
    /\ ~result.success
    /\ result.error_code = "INSTALLATION_FAILED"
    /\ tools # <<>>

\* C3: installing a reachable repository that holds only a valid Dockerfile,
\* under a name not yet registered, gives a structure score of at least 30 and
\* no critical error, returns success=true and stores exactly one new Tool in
\* PENDING.
C3_DockerfileOnlyInstallSucceeds ==
    [][ ( /\ result'.op = "install"
          /\ CloneSucceeded(result'.args)
          /\ result'.args.remote.repo = RepoDockerOnly
          /\ ~\E i \in DOMAIN tools : tools[i].name = result'.tool_name )
        => ( /\ result'.structure_score >= 30
             /\ result'.critical_errors = {}
             /\ result'.success
             /\ Cardinality(DOMAIN tools' \ DOMAIN tools) = 1
             /\ \A i \in DOMAIN tools' \ DOMAIN tools : tools'[i].status = PENDING
             /\ \A i \in DOMAIN tools : i \in DOMAIN tools' /\ tools'[i] = tools[i] ) ]_vars

\* C4: when an install whose clone succeeded returns, with success or with a
\* failure, the temporary directory made for its clone exists no more.
C4_InstallWorkspaceRemoved ==
    ( /\ result.op = "install"
      /\ CloneSucceeded(result.args) )
    => ( /\ result.made_dir
         /\ result.temp_dir \notin dirs
         /\ result.temp_dir \notin repoDirs )

\* C5: a clone that runs into its timeout makes install return success=false
\* with CLONE_TIMEOUT, and the temporary directory made for the clone is gone
\* when the call returns.
C5_CloneTimeoutLeavesNoDir ==
    ( /\ result.op = "install"
      /\ _is_valid_git_url(result.args.git_url)
      /\ result.args.remote.accessible
      /\ result.args.remote.clone = "timeout" )
    => ( /\ ~result.success
         /\ result.error_code = "CLONE_TIMEOUT"
         /\ result.temp_dir \notin dirs )

\* C6: a clone that ends with a non-zero exit during install (CLONE_FAILED),
\* or with any error during build, has its temporary directory removed when
\* the failure is returned.
C6_FailedCloneRemovesDir ==
    /\ ( /\ result.op = "install"
         /\ _is_valid_git_url(result.args.git_url)
         /\ result.args.remote.accessible
         /\ result.args.remote.clone = "nonzero_exit" )
       => ( /\ ~result.success
            /\ result.error_code = "CLONE_FAILED"
            /\ result.made_dir
            /\ result.temp_dir \notin dirs
            /\ result.temp_dir \notin repoDirs )
    /\ ( /\ result.op = "build"
         /\ result.made_dir
         /\ result.args.clone # "cloned" )
       => ( /\ ~result.success
            /\ result.temp_dir \notin dirs )

C6_Witness ==
    /\ result.op = "build"
    /\ result.made_dir
    /\ result.args.clone = "GitCommandError"
    /\ ~result.success
    /\ dirs \cap TempDirIds # {}

\* C7: a build that cloned its own workspace has removed it when it returns,
\* whether the image build succeeded or failed, and a build context handed in
\* by the caller is never removed.
C7_BuildWorkspaceRemoved ==
    /\ (result.op = "build" /\ result.made_dir) => result.temp_dir \notin dirs
    /\ (result.op = "build" /\ result.args.given_context) => CallerContexts \subseteq dirs

C7_Witness ==
    /\ result.op = "build"
    /\ result.made_dir
    /\ InSeq("build_image", result.events)
    /\ ~result.success
    /\ result.temp_dir \notin dirs

\* C8: a build of an existing tool writes BUILDING before it clones or builds;
\* when it returns the tool is STOPPED (success, with the build log stored and
\* error_message cleared) or FAILED, and no tool is left in BUILDING.
C8_BuildEndsStoppedOrFailed ==
    /\ (result.op = "build" /\ result.tool_id \in DOMAIN tools) =>
          LET t == tools[result.tool_id]
          IN  /\ Head(result.events) = "status:building"
              /\ Before("status:building", "clone_repository", result.events)
              /\ Before("status:building", "build_image", result.events)
              /\ result.success =>
                    ( /\ t.status = STOPPED
                      /\ t.build_log = <<"Step 1/2 : FROM alpine", "Step 2/2 : RUN make">>
                      /\ t.error_message = Null )
              /\ ~result.success => t.status = FAILED
    /\ \A i \in DOMAIN tools : tools[i].status # BUILDING

C8_Witness ==
    /\ result.op = "build"
    /\ result.success
    /\ result.tool_id \in DOMAIN tools
    /\ tools[result.tool_id].status = STOPPED
    /\ tools[result.tool_id].build_log # NoBuildLog

\* C9: building a persisted PENDING tool whose image build fails writes
\* BUILDING and then FAILED, returns success=false, and leaves a non-empty
\* error_message and the build output captured before the failure in build_log.
C9_FailedBuildKeepsLog ==
    [][ ( /\ result'.op = "build"
          /\ result'.tool_id \in DOMAIN tools
          /\ tools[result'.tool_id].status = PENDING
          /\ InSeq("build_image", result'.events)
          /\ (~is_available \/ result'.args.outcome # "built") )
        => LET t == tools'[result'.tool_id]
           IN  /\ ~result'.success
               /\ Head(result'.events) = "status:building"
               /\ Before("status:building", "status:failed", result'.events)
               /\ InSeq("status:failed", result'.events)
               /\ ~InSeq("status:stopped", result'.events)
               /\ t.status = FAILED
               /\ Truthy(t.error_message)
               /\ t.build_log # NoBuildLog
               /\ (is_available /\ result'.args.outcome = "BuildError") =>
                     t.build_log = <<"Step 1/2 : FROM alpine\n", "Step 2/2 : RUN make\n">> ]_vars

C9_Witness ==
    /\ result.op = "build"
    /\ ~result.success
    /\ is_available
    /\ result.args.outcome = "BuildError"
    /\ InSeq("build_image", result.events)
    /\ result.tool_id \in DOMAIN tools
    /\ tools[result.tool_id].status = FAILED
    /\ tools[result.tool_id].build_log = <<"Step 1/2 : FROM alpine\n", "Step 2/2 : RUN make\n">>

\* C10: start on an existing tool that is not RUNNING uses the compose adapter
\* when has_compose is true and compose_file is set and the single-container
\* adapter otherwise, and when the adapter succeeds the row is RUNNING with a
\* non-empty identifier and a cleared error_message.
C10_StartDispatch ==
    [][ ( /\ result'.op = "start"
          /\ result'.tool_id \in DOMAIN tools
          /\ tools[result'.tool_id].status # RUNNING )
        => LET old == tools[result'.tool_id]
               t == tools'[result'.tool_id]
               succeeds == IF uses_compose(old) THEN result'.args.up = "exit0"
                           ELSE is_available /\ result'.args.run \in ContainerIds
           IN  /\ result'.adapter = IF uses_compose(old) THEN "compose" ELSE "single"
               /\ succeeds => ( /\ result'.success
                                /\ t.status = RUNNING
                                /\ Truthy(t.container_id)
                                /\ t.error_message = Null ) ]_vars

\* the engine would start the tool: 'docker-compose up' exits 0 for a compose
\* tool, the engine is reachable and runs the container otherwise
EngineStarts(tool, a) ==
    IF uses_compose(tool) THEN a.up = "exit0"
    ELSE is_available /\ a.run \in ContainerIds

\* C11: a start of an existing, not running tool whose adapter returns a
\* failure or raises returns success=false and leaves the row FAILED with a
\* non-empty error_message, the one the call returned.
C11_FailedStartRecorded ==
    [][ ( /\ result'.op = "start"
          /\ result'.tool_id \in DOMAIN tools
          /\ tools[result'.tool_id].status # RUNNING
          /\ (~result'.success \/ ~EngineStarts(tools[result'.tool_id], result'.args)) )
        => LET t == tools'[result'.tool_id]
           IN  /\ ~result'.success
               /\ t.status = FAILED
               /\ Truthy(t.error_message)
               /\ t.error_message = result'.error ]_vars

C11_Witness ==
    /\ result.op = "start"
    /\ ~result.success
    /\ result.adapter = "single"
    /\ result.tool_id \in DOMAIN tools
    /\ tools[result.tool_id].status = FAILED
    /\ tools[result.tool_id].error_message = "ContainerError"

\* C12: starting a compose tool whose compose file declares two services,
\* when 'docker-compose up' succeeds, returns success=true with both services
\* in the returned 'services' list and leaves the row RUNNING.
C12_ComposeStartListsServices ==
    [][ ( /\ result'.op = "start"
          /\ result'.tool_id \in DOMAIN tools
          /\ tools[result'.tool_id].status # RUNNING
          /\ uses_compose(tools[result'.tool_id])
          /\ Len(StackServices) = 2
          /\ result'.args.up = "exit0" )
        => ( /\ result'.success
             /\ \A i \in 1 .. Len(StackServices) : InSeq(StackServices[i], result'.services)
             /\ tools'[result'.tool_id].status = RUNNING ) ]_vars

\* C13: stop on a tool that has a container or stack identifier uses the
\* adapter chosen by has_compose and sets the row STOPPED when the engine stops
\* the instance; when the adapter fails or raises, stop returns success=false
\* and status, identifier and error_message stay as they were.
C13_StopDispatch ==
    [][ ( /\ result'.op = "stop"
          /\ result'.tool_id \in DOMAIN tools
          /\ Truthy(tools[result'.tool_id].container_id) )
        => LET old == tools[result'.tool_id]
               t == tools'[result'.tool_id]
           IN  /\ result'.args.down = "stopped" =>
                     ( /\ result'.adapter = IF uses_compose(old) THEN "compose" ELSE "single"
                       /\ result'.success
                       /\ t.status = STOPPED )
               /\ result'.args.down # "stopped" => ~result'.success
               /\ ~result'.success =>
                     ( /\ t.status = old.status
                       /\ t.container_id = old.container_id
                       /\ t.error_message = old.error_message ) ]_vars

\* C14: stop on an existing tool that was never started, is already stopped,
\* or whose container the engine no longer has, returns success; and a stop
\* right after a successful stop of the same tool returns success with the
\* status still STOPPED.
C14_StopIdempotent ==
    [][ ( /\ result'.op = "stop"
          /\ result'.tool_id \in DOMAIN tools )
        => LET old == tools[result'.tool_id]
           IN  /\ ( \/ ~Truthy(old.container_id)
                    \/ old.status = STOPPED
                    \/ result'.args.down = "not_found" ) => result'.success
               /\ ( /\ result.op = "stop"
                    /\ result.success
                    /\ result.tool_id = result'.tool_id
                    /\ old.status = STOPPED )
                  => ( /\ result'.success
                       /\ tools'[result'.tool_id].status = STOPPED ) ]_vars

\* C15: restart calls stop and then start, in that order; when the stop
\* returns success=false, restart returns that failure, start is not called
\* and the rows are as the failed stop left them.
C15_RestartStopsFirst ==
    [][ result'.op = "restart" =>
          LET sr == stop_result(tools, result'.tool_id, result'.args.down)
          IN  /\ Head(result'.events) = "stop_tool"
              /\ Before("stop_tool", "start_tool", result'.events)
              /\ sr.success => InSeq("start_tool", result'.events)
              /\ ~sr.success =>
                    ( /\ ~result'.success
                      /\ result'.error = sr.error
                      /\ ~InSeq("start_tool", result'.events)
                      /\ ~InSeq("status:running", result'.events)
                      /\ ~InSeq("status:failed", result'.events)
                      /\ tools' = stop_db(tools, result'.tool_id, result'.args.down)
                      /\ tools' = tools ) ]_vars

C15_Witness ==
    /\ result.op = "restart"
    /\ ~result.success
    /\ result.error = "AttributeError"
    /\ result.events = <<"stop_tool">>
    /\ result.tool_id \in DOMAIN tools
    /\ tools[result.tool_id].status = RUNNING

\* C16: a health check of an existing tool returns a boolean health result and
\* writes the time of the check to the row, and leaves status, container
\* identifier and error_message as they were, whatever the probe gives.
C16_HealthCheckRecordsTime ==
    [][ ( /\ result'.op = "health_check"
          /\ result'.tool_id \in DOMAIN tools )
        => LET old == tools[result'.tool_id]
               t == tools'[result'.tool_id]
           IN  /\ result'.healthy \in {"True", "False"}
               /\ t.last_health_check # Null
               /\ t.status = old.status
               /\ t.container_id = old.container_id
               /\ t.error_message = old.error_message ]_vars

\* C17: delete of a tool that has a container or stack identifier performs the
\* stop first and removes the row only when that stop has stopped the instance;
\* when the stop fails the row stays.
C17_DeleteOnlyAfterStop ==
    [][ ( /\ result'.op = "delete"
          /\ result'.tool_id \in DOMAIN tools
          /\ Truthy(tools[result'.tool_id].container_id) )
        => ( /\ Head(result'.events) = "stop_tool"
             /\ Before("stop_tool", "delete", result'.events)
             /\ result'.tool_id \notin DOMAIN tools' =>
                   /\ stop_result(tools, result'.tool_id, result'.args.down).success
                   /\ InSeq("status:stopped", result'.events) ) ]_vars

\* C18: build, start, stop, restart, health check and delete of an id that
\* matches no row report not-found (success=false), call no fetch or runtime
\* adapter, and leave every row and the disk as they were.
C18_UnknownIdChangesNothing ==
    [][ ( /\ result'.op \in {"build", "start", "stop", "restart", "health_check", "delete"}
          /\ result'.tool_id \notin DOMAIN tools )
        => ( /\ ~result'.success
             /\ result'.op # "delete" => result'.error = "Tool not found"
             /\ result'.adapter = "none"
             /\ result'.branch = "none"
             /\ ~result'.made_dir
             /\ result'.events \in {<<>>, <<"stop_tool">>}
             /\ tools' = tools
             /\ dirs' = dirs ) ]_vars

C18_Witness ==
    /\ result.op = "restart"
    /\ ~result.success
    /\ result.error = "Tool not found"
    /\ result.tool_id \notin DOMAIN tools
    /\ tools # <<>>

\* the status an event of the form status:<value> wrote, Null for other events
WrittenStatus(e) ==
    CASE e = "status:building" -> BUILDING
      [] e = "status:running" -> RUNNING
      [] e = "status:stopped" -> STOPPED
      [] e = "status:failed" -> FAILED
      [] OTHER -> Null

IsStatusEvent(e) == WrittenStatus(e) # Null

\* the statuses a row went through in one operation, from the one it had
StatusPath(old, events) ==
    LET ws == SelectSeq(events, IsStatusEvent)
    IN  <<old>> \o [k \in 1 .. Len(ws) |-> WrittenStatus(ws[k])]

AllowedEdges ==
    { <<PENDING, BUILDING>>, <<BUILDING, STOPPED>>, <<BUILDING, FAILED>>,
      <<STOPPED, RUNNING>>, <<RUNNING, STOPPED>>,
      <<FAILED, BUILDING>>, <<FAILED, RUNNING>> }
    \cup { <<st, FAILED>> : st \in ToolStatus }

\* C19: every change of a row's status follows one of the edges
\* PENDING->BUILDING, BUILDING->STOPPED, BUILDING->FAILED, STOPPED->RUNNING,
\* RUNNING->STOPPED, any->FAILED, FAILED->BUILDING, FAILED->RUNNING; no row goes
\* from PENDING to RUNNING or from RUNNING or STOPPED to BUILDING.
C19_StatusEdges ==
    [][ result'.tool_id \in DOMAIN tools =>
          LET path == StatusPath(tools[result'.tool_id].status, result'.events)
          IN  /\ \A k \in 1 .. (Len(path) - 1) :
                    path[k] = path[k + 1] \/ <<path[k], path[k + 1]>> \in AllowedEdges
              /\ result'.tool_id \in DOMAIN tools' =>
                    tools'[result'.tool_id].status = path[Len(path)] ]_vars

\* C20: a build or a start of a tool that is FAILED or PENDING is carried out,
\* not refused, and when it succeeds the row becomes STOPPED (build) or RUNNING
\* (start) with error_message cleared.
C20_RetryFromFailedOrPending ==
    [][ ( /\ result'.op \in {"build", "start"}
          /\ result'.tool_id \in DOMAIN tools
          /\ tools[result'.tool_id].status \in {FAILED, PENDING} )
        => LET t == tools'[result'.tool_id]
           IN  /\ result'.events # <<>>
               /\ result'.op = "build" => Head(result'.events) = "status:building"
               /\ result'.op = "start" => result'.branch # "none"
               /\ result'.success =>
                     ( /\ t.status = IF result'.op = "build" THEN STOPPED ELSE RUNNING
                       /\ t.error_message = Null ) ]_vars

\* a start that succeeded on a row whose last build failed with a BuildError
C20_Witness ==
    /\ result.op = "start"
    /\ result.success
    /\ result.events = <<"status:running">>
    /\ result.tool_id \in DOMAIN tools
    /\ tools[result.tool_id].build_log = <<"Step 1/2 : FROM alpine\n", "Step 2/2 : RUN make\n">>
    /\ tools[result.tool_id].status = RUNNING
    /\ tools[result.tool_id].error_message = Null

\* C21: a row's container or stack identifier is non-empty only if the row is
\* RUNNING or BUILDING or was started successfully before: a new row has none,
\* and an identifier appears on a row only through a start of that row that
\* succeeded and left it RUNNING.
C21_IdentifierOnlyFromStart ==
    [][ \A i \in DOMAIN tools' :
          Truthy(tools'[i].container_id) =>
             \/ i \in DOMAIN tools /\ tools[i].container_id = tools'[i].container_id
             \/ /\ result'.op \in {"start", "restart"}
                /\ result'.tool_id = i
                /\ result'.success
                /\ InSeq("status:running", result'.events)
                /\ tools'[i].status = RUNNING ]_vars

\* one row started and running, another never started and without identifier
C21_Witness ==
    \E i, j \in DOMAIN tools :
        /\ tools[i].status = RUNNING
        /\ Truthy(tools[i].container_id)
        /\ tools[j].status = FAILED
        /\ ~Truthy(tools[j].container_id)

Supplied(repo, file, value) == IF file \in repo.files THEN value ELSE Null

\* C23: metadata extraction gives each field the value of the first source
\* that supplies it in the order machete.yml, package.json, Python source scan,
\* README: a name in machete.yml wins over one in package.json, and a port in
\* machete.yml wins over one found by the source scan.
C23_ManifestWins ==
    (result.op = "install" /\ CloneSucceeded(result.args)) =>
        LET repo == result.args.remote.repo
            md == extract_tool_metadata(repo)
            scanned == IF {"requirements.txt", "pyproject.toml"} \cap repo.files # {}
                       THEN repo.py_port ELSE Null
            readme == IF FirstExisting(readme_files, repo.files) # Null
                      THEN repo.readme_line ELSE Null
        IN  /\ md.name = Or3(Supplied(repo, "machete.yml", repo.machete_yml.name),
                             Supplied(repo, "package.json", repo.package_json.name),
                             Null)
            /\ md.description =
                  Or3(Supplied(repo, "machete.yml", repo.machete_yml.description),
                      Supplied(repo, "package.json", repo.package_json.description),
                      readme)
            /\ md.port = Or3(Supplied(repo, "machete.yml", repo.machete_yml.port),
                             scanned, Null)

C25_BlockingDockerErrorFailsInstall ==
    (result.op = "install" /\ CloneSucceeded(result.args)
        /\ "Dockerfile" \in result.args.remote.repo.files) =>
        LET dc == _validate_docker_configuration(result.args.remote.repo)
        IN  /\ dc.errors # {} =>
                   /\ ~result.success
                   /\ ~InSeq("database_storage", result.events)
                   /\ result.tool_id = 0
            /\ dc.errors = {} => InSeq("name_resolution", result.events)

\* the steps of the install pipeline, in the order the claim gives them
PipelineOrder ==
    <<"url_validation", "repository_accessibility", "cloning", "structure_validation",
      "metadata_extraction", "docker_validation", "database_storage", "cleanup">>

\* the pipeline steps among the steps an install went through, in that order
PipelineSteps(events) == SelectSeq(events, LAMBDA e : InSeq(e, PipelineOrder))

C27_FailureCodeHasGuide ==
    (result.op = "install" /\ ~result.success) =>
        /\ result.error_code \in {"INVALID_GIT_URL", "REPOSITORY_INACCESSIBLE",
                                  "CLONE_FAILED", "CLONE_TIMEOUT",
                                  "INVALID_TOOL_STRUCTURE", "TOOL_EXISTS"}
        /\ result.troubleshooting.guide = result.error_code
        /\ result.troubleshooting.common_causes
        /\ result.troubleshooting.solutions

\* C28: every operation returns a result with a success flag, and an install
\* in which building the tool record raises (a tree without description, a
\* tree with a compose file) is reported with the code UNEXPECTED_ERROR and an
\* error text that ends with the message of the fault.
C28_InstallFaultIsUnexpectedError ==
    /\ result.success \in BOOLEAN
    /\ (result.op = "install" /\ CloneSucceeded(result.args)
            /\ InSeq("database_storage", result.events)) =>
          LET md == extract_tool_metadata(result.args.remote.repo)
          IN  (md.description = Null \/ md.has_compose) =>
                 /\ ~result.success
                 /\ result.error_code = "UNEXPECTED_ERROR"
                 /\ \E text \in {"", "Installation failed: ", "Unexpected error: "},
                       message \in {"'NoneType' object has no attribute 'split'",
                                    "COMPOSE"} :
                        result.error = text \o message

\* the location a path names: "." stays, ".." goes one directory up
RECURSIVE Resolve(_, _)
Resolve(segs, at) ==
    IF segs = <<>> THEN at
    ELSE IF Head(segs) = "." THEN Resolve(Tail(segs), at)
    ELSE IF Head(segs) = ".."
         THEN Resolve(Tail(segs), IF at = <<>> THEN at ELSE SubSeq(at, 1, Len(at) - 1))
    ELSE Resolve(Tail(segs), Append(at, Head(segs)))

\* the location lies in the directory or is the directory
Inside(location, directory) ==
    /\ Len(location) >= Len(directory)
    /\ SubSeq(location, 1, Len(directory)) = directory

MappedStatus(engine_state) ==
    CASE engine_state = "running" -> RUNNING
      [] engine_state = "exited" -> STOPPED
      [] engine_state = "created" -> PENDING
      [] engine_state = "restarting" -> PENDING
      [] engine_state = "paused" -> UNKNOWN
      [] engine_state = "not_found" -> STOPPED

\* C30: a status refresh of a tool that has a container succeeds and leaves
\* the row with the status mapped from the engine state (running, exited,
\* created, restarting, paused, not found to RUNNING, STOPPED, PENDING,
\* PENDING, UNKNOWN, STOPPED), and it writes nothing when the stored status is
\* that status already.
C30_RefreshMapsEngineState ==
    [][ ( /\ result'.op = "update_tool_status"
          /\ result'.tool_id \in DOMAIN tools
          /\ Truthy(tools[result'.tool_id].container_id) )
        => LET mapped == MappedStatus(result'.args.engine_state)
           IN  /\ result'.success
               /\ tools'[result'.tool_id].status = mapped
               /\ tools[result'.tool_id].status = mapped => tools' = tools ]_vars

\* C31: every cleanup call returns success; on a path that exists it removes
\* the path and nothing else; on the empty path or a path that does not exist
\* it changes nothing; and a call repeated with the same path changes nothing
\* and returns success again.
C31_CleanupIdempotent ==
    [][ result'.op = "cleanup" =>
          LET repo_path == result'.args.repo_path
              exists == repo_path.set /\ repo_path.path \in dirs
          IN  /\ result'.success
              /\ exists => /\ dirs' = dirs \ {repo_path.path}
                           /\ repoDirs' = repoDirs \ {repo_path.path}
              /\ ~exists => /\ dirs' = dirs
                            /\ repoDirs' = repoDirs
              /\ (result.op = "cleanup" /\ result.args = result'.args) =>
                    /\ dirs' = dirs
                    /\ repoDirs' = repoDirs ]_vars

\* a cleanup of a temporary directory that is not there: removed by an earlier
\* call or never made
C31_Witness ==
    /\ result.op = "cleanup" /\ result.success
    /\ result.args.repo_path.set
    /\ result.args.repo_path.path \in TempDirIds
    /\ result.args.repo_path.path \notin dirs
    /\ result.events = <<>>

\* C33: a start of a tool whose status is RUNNING returns success, calls no
\* runtime adapter, and leaves every row and the engine as they were.
C33_StartOnRunningIsNoOp ==
    [][ ( /\ result'.op = "start"
          /\ result'.tool_id \in DOMAIN tools
          /\ tools[result'.tool_id].status = RUNNING )
        => /\ result'.success
           /\ result'.adapter = "none"
           /\ result'.events = <<>>
           /\ tools' = tools
           /\ instances' = instances ]_vars

\* a start answered for a tool that is running
C33_Witness ==
    /\ result.op = "start" /\ result.success
    /\ result.adapter = "none" /\ result.events = <<>>
    /\ result.tool_id \in DOMAIN tools
    /\ tools[result.tool_id].status = RUNNING
    /\ tools[result.tool_id].container_id \in ContainerIds

\* C35: an install of a tree that holds a Dockerfile, a description and a
\* compose file, under a name no tool has, succeeds and stores a row with
\* has_compose true and compose_file the first compose file name found.
C35_ComposeInstallSucceeds ==
    [][ ( /\ result'.op = "install"
          /\ CloneSucceeded(result'.args)
          /\ "Dockerfile" \in result'.args.remote.repo.files
          /\ FirstExisting(compose_files, result'.args.remote.repo.files) # Null
          /\ extract_tool_metadata(result'.args.remote.repo).description # Null
          /\ \A i \in DOMAIN tools : tools[i].name # result'.tool_name )
        => /\ result'.success
           /\ result'.tool_id \in DOMAIN tools' \ DOMAIN tools
           /\ tools'[result'.tool_id].has_compose
           /\ tools'[result'.tool_id].compose_file =
                  FirstExisting(compose_files, result'.args.remote.repo.files) ]_vars

\* C36: an install of a tree whose only Dockerfile lies at docker/Dockerfile
\* or build/Dockerfile passes structure validation, goes on to metadata
\* extraction, and the extracted dockerfile_path is that location.
C36_NestedDockerfileAccepted ==
    (result.op = "install" /\ CloneSucceeded(result.args)
        /\ "Dockerfile" \notin result.args.remote.repo.files
        /\ FirstExisting(dockerfile_paths, result.args.remote.repo.files) # Null) =>
        /\ result.error_code # "INVALID_TOOL_STRUCTURE"
        /\ result.critical_errors = {}
        /\ InSeq("metadata_extraction", result.events)
        /\ extract_tool_metadata(result.args.remote.repo).dockerfile_path =
               FirstExisting(dockerfile_paths, result.args.remote.repo.files)

\* C37: after every operation a row whose status is RUNNING holds a
\* non-empty container identifier; the row either was RUNNING with that
\* identifier before the operation, or the operation is a start of that tool
\* that succeeded and the identifier is the one that start returned.
C37_RunningHasLatestIdentifier ==
    [][ \A i \in DOMAIN tools' :
          tools'[i].status = RUNNING =>
            /\ Truthy(tools'[i].container_id)
            /\ \/ /\ i \in DOMAIN tools
                  /\ tools[i].status = RUNNING
                  /\ tools'[i].container_id = tools[i].container_id
                  /\ ~(result'.op = "start" /\ result'.tool_id = i
                         /\ result'.events = <<"status:running">>)
               \/ /\ result'.op = "start" /\ result'.tool_id = i
                  /\ result'.success
                  /\ result'.events = <<"status:running">>
                  /\ tools'[i].container_id =
                        IF result'.branch = "compose" THEN "compose-" \o tools'[i].name
                        ELSE result'.args.run ]_vars

\* a start of a tool that was built before: the row is RUNNING with the
\* identifier that start returned
C37_Witness ==
    /\ result.op = "start" /\ result.success
    /\ result.events = <<"status:running">>
    /\ result.tool_id \in DOMAIN tools
    /\ tools[result.tool_id].status = RUNNING
    /\ tools[result.tool_id].container_id = "c2"
    /\ tools[result.tool_id].build_log # NoBuildLog

\* C38: a row whose status is STOPPED belongs to a tool with no instance
\* running in the engine: an instance that a start brought up and no stop has
\* taken down is never recorded as STOPPED.
C38_StoppedHasNoInstance ==
    \A i \in DOMAIN tools :
        tools[i].status = STOPPED => tools[i].name \notin instances

\* C39: a row whose status is FAILED has a non-empty error_message; a build,
\* start or stop that succeeded and wrote STOPPED or RUNNING leaves the row's
\* error_message empty; a stop that failed leaves every row as it was.
C39_ErrorMessageFollowsStatus ==
    [][ /\ \A i \in DOMAIN tools' :
              tools'[i].status = FAILED => Truthy(tools'[i].error_message)
        /\ ( /\ result'.op \in {"build", "start", "stop"}
             /\ result'.success
             /\ result'.tool_id \in DOMAIN tools'
             /\ \/ InSeq("status:stopped", result'.events)
                \/ InSeq("status:running", result'.events) )
           => /\ tools'[result'.tool_id].status \in {STOPPED, RUNNING}
              /\ tools'[result'.tool_id].error_message = Null
        /\ (result'.op = "stop" /\ ~result'.success) => tools' = tools ]_vars

\* a stop that failed on a tool whose last build had failed: the build's
\* error_message is still in the row
C39_Witness ==
    /\ result.op = "stop" /\ ~result.success
    /\ result.tool_id \in DOMAIN tools
    /\ tools[result.tool_id].status = FAILED
    /\ Truthy(tools[result.tool_id].error_message)
    /\ Truthy(tools[result.tool_id].container_id)

\* C32: nothing excludes two operations on one tool from each other: while a
\* request is between its read and its return on a tool, a start, a build
\* and a stop of the same tool can begin in another request.
C32_NoMutualExclusion ==
    \A p, q \in Procs :
        (p # q /\ inflight[p].pc = "idle" /\ inflight[q].pc \notin {"idle", "done"}) =>
            /\ ENABLED begin_start(p, inflight[q].tool_id)
            /\ ENABLED begin_build(p, inflight[q].tool_id)
            /\ ENABLED begin_stop(p, inflight[q].tool_id)

\* the interleaving that leaves the row wrong: a start read the row while a
\* build was in flight (status BUILDING), brought the container up and wrote
\* RUNNING; the build then wrote STOPPED over it, with the container running
C32_Witness ==
    \E p, q \in Procs :
        /\ inflight[p].op = "start" /\ inflight[p].pc = "done"
        /\ inflight[p].ret.success
        /\ inflight[p].seen.status = BUILDING
        /\ inflight[q].op = "build" /\ inflight[q].pc = "done"
        /\ inflight[q].ret.success
        /\ inflight[q].tool_id = inflight[p].tool_id
        /\ tools[inflight[p].tool_id].status = STOPPED
        /\ tools[inflight[p].tool_id].name \in instances

\* an install that has returned, of a tree that an install on its own stores:
\* the clone succeeded, there is a Dockerfile and a description, no compose file
StorableInstall(f) ==
    /\ f.op = "install" /\ f.pc = "done"
    /\ CloneSucceeded(f.ret.args)
    /\ "Dockerfile" \in f.ret.args.remote.repo.files
    /\ extract_tool_metadata(f.ret.args.remote.repo).description # Null
    /\ ~extract_tool_metadata(f.ret.args.remote.repo).has_compose

\* C34: when two installs that resolve to one name have both returned, one
\* row has that name, one of them returned success and the other returned
\* TOOL_EXISTS.
C34_ConcurrentInstallsOneWinner ==
    \A p, q \in Procs :
        (p # q /\ StorableInstall(inflight[p]) /\ StorableInstall(inflight[q])
            /\ inflight[p].ret.tool_name = inflight[q].ret.tool_name) =>
            /\ Cardinality(get_tool_by_name(tools, inflight[p].ret.tool_name)) = 1
            /\ inflight[p].ret.success # inflight[q].ret.success
            /\ ~inflight[p].ret.success => inflight[p].ret.error_code = "TOOL_EXISTS"

====
